---- MODULE Spec2Model ----
(***************************************************************************)
(* Model of src/bloom_filter_concur.py: a Bloom filter whose bit array is  *)
(* a memory-mapped file, accessed by threads under the "third readers-     *)
(* writers" protocol built from three threading.Semaphore(1) objects.      *)
(*                                                                         *)
(* Every statement of add_elem / check_member / delete that touches shared *)
(* state is one action; a thread's position is pc[t].                      *)
(***************************************************************************)
EXTENDS Integers, Sequences, FiniteSets, TLC

(***************************************************************************)
(* Bounds of the model.                                                    *)
(***************************************************************************)
NumThreads == 2
MaxLeaked == 2

Threads == 1..NumThreads

(***************************************************************************)
(* Filter parameters: size and hash_count as __init__ derives them for     *)
(* BloomFilter(1, 0.1): int(-1*ln(0.1)/ln(2)^2) = int(4.79) = 4 and        *)
(* int(4/1*ln(2)) = int(2.77) = 2.                                         *)
(***************************************************************************)
InitSize == 4
InitHashCount == 2

(***************************************************************************)
(* Elements.  add_elem/check_member accept any Python value; callers pass  *)
(* the number 1 and the texts "1" and "2".  A text is the sequence of its  *)
(* character codes ('1' is 49, '2' is 50).                                 *)
(***************************************************************************)
IntElem(n) == [kind |-> "int", num |-> n, txt |-> <<>>]
StrElem(s) == [kind |-> "str", num |-> 0, txt |-> s]
NoElem == [kind |-> "none", num |-> 0, txt |-> <<>>]

Elems == {IntElem(1), StrElem(<<49>>), StrElem(<<50>>)}

(***************************************************************************)
(* str(n) for a non-negative integer: its decimal digits ('0' is code 48). *)
(***************************************************************************)
RECURSIVE StrOfNat(_)
StrOfNat(n) ==
    IF n < 10 THEN <<48 + n>>
    ELSE StrOfNat(n \div 10) \o <<48 + (n % 10)>>

(***************************************************************************)
(* str(elem), as add_elem and check_member apply it before hashing: a text *)
(* is returned unchanged, a number becomes its decimal digits.             *)
(***************************************************************************)
Str(e) == IF e.kind = "int" THEN StrOfNat(e.num) ELSE e.txt

(***************************************************************************)
(* The digest.  hashlib.sha256(...).hexdigest() read as an integer is a    *)
(* fixed deterministic function of the input bytes; the model uses a       *)
(* 16-bit polynomial digest in its place.  Only determinism and the        *)
(* dependence on the whole input string are relied upon.                   *)
(***************************************************************************)
RECURSIVE Digest(_)
Digest(s) ==
    IF s = <<>> THEN 7
    ELSE (Digest(SubSeq(s, 1, Len(s) - 1)) * 31 + s[Len(s)]) % 65536

(***************************************************************************)
(* The string compute_hash feeds to the digest: elem + str(i).             *)
(***************************************************************************)
HashInput(s, i) == s \o StrOfNat(i)

(***************************************************************************)
(* compute_hash(elem, i) with self.size = sz.                              *)
(***************************************************************************)
compute_hash(s, i, sz) == Digest(HashInput(s, i)) % sz

(***************************************************************************)
(* The positions an element occupies: compute_hash(str(elem), i) for       *)
(* i in range(hash_count).                                                 *)
(***************************************************************************)
Positions(e, hc, sz) == {compute_hash(Str(e), i, sz) : i \in 0..(hc - 1)}

(***************************************************************************)
(* State.                                                                  *)
(*   pc, op, elem, i, res   per-thread position, running operation and     *)
(*                          the locals elem, i, res of the running call    *)
(*   readcount, resource, rmutex, serviceQueue                             *)
(*                          the lock state of __init__ (semaphore values)  *)
(*   size, hash_count       the object's fields                            *)
(*   bit_array              the mapped cells (shared with the file)        *)
(*   binExists              whether the bit-array file is on disk          *)
(*   meta                   contents of the .meta file, or NoMeta          *)
(*   added, expected, wasAdded, destroyed, afterDestroy                    *)
(*                          history variables used by the properties:      *)
(*                          the elements whose add_elem has returned, the  *)
(*                          cells these adds set when run alone, whether   *)
(*                          the element of a check had been added when     *)
(*                          the check was called, whether delete has       *)
(*                          returned, whether a call began after that      *)
(*   num_elem, target_error_rate, built                                    *)
(*                          the arguments of the BloomFilter(...) call     *)
(*                          (the rate in hundredths) and how it ended:     *)
(*                          "none" while it has not run, "ok" when it      *)
(*                          returned a filter, else the exception raised   *)
(*   service_queue, semaphore, fpc                                         *)
(*                          an FCFS_Semaphore: its ticket queue, the value *)
(*                          of its inner semaphore, and each thread's      *)
(*                          position in acquire()/release()                *)
(*   arrivals, served       history: the threads in the order of their     *)
(*                          service_queue.put, and in the order in which   *)
(*                          acquire() returned to them                     *)
(***************************************************************************)
VARIABLES pc, op, elem, i, res,
          readcount, resource, rmutex, serviceQueue,
          size, hash_count, bit_array, binExists, meta,
          added, expected, wasAdded, destroyed, afterDestroy,
          num_elem, target_error_rate, built,
          service_queue, semaphore, fpc, arrivals, served

locals == <<pc, op, elem, i, res>>
locks == <<readcount, resource, rmutex, serviceQueue>>
store == <<size, hash_count, bit_array, binExists, meta>>
history == <<added, expected, wasAdded, destroyed, afterDestroy>>
args == <<num_elem, target_error_rate, built>>
fcfs == <<service_queue, semaphore, fpc, arrivals, served>>
vars == <<pc, op, elem, i, res,
          readcount, resource, rmutex, serviceQueue,
          size, hash_count, bit_array, binExists, meta,
          added, expected, wasAdded, destroyed, afterDestroy,
          num_elem, target_error_rate, built,
          service_queue, semaphore, fpc, arrivals, served>>

NoMeta == [size |-> 0, hash_count |-> 0, present |-> FALSE]

(***************************************************************************)
(* save_metadata: the record pickled into filename + '.meta'.              *)
(***************************************************************************)
save_metadata(sz, hc) == [size |-> sz, hash_count |-> hc, present |-> TRUE]

(***************************************************************************)
(* f.write(b'\x00' * size): the freshly written bit-array file.            *)
(***************************************************************************)
ZeroArray(sz) == [c \in 0..(sz - 1) |-> 0]

(***************************************************************************)
(* Faulty variants of the cell write: the write is dropped; the cell is    *)
(* flipped instead of set; the cell counts the writes.                     *)
(***************************************************************************)
SetCell_Dropped(arr, index) == arr
SetCell_Flip(arr, index) == [arr EXCEPT ![index] = 1 - arr[index]]
SetCell_Increment(arr, index) == [arr EXCEPT ![index] = arr[index] + 1]

(***************************************************************************)
(* self.bit_array[index] = 1                                               *)
(***************************************************************************)
SetCell(arr, index) == [arr EXCEPT ![index] = 1]

(***************************************************************************)
(* threading.Semaphore: acquire() blocks while the value is 0 and then     *)
(* decrements it; release() increments it (the value is not capped).       *)
(***************************************************************************)
CanAcquire(sem) == sem > 0
Acquired(sem) == sem - 1
Released(sem) == sem + 1

(***************************************************************************)
(* Faulty variants of the readcount tests: entry tests for 0 (never true   *)
(* after the increment); entry takes resource for every reader; exit       *)
(* tests for 1 (never true when the last reader leaves).                   *)
(***************************************************************************)
FirstReader_Zero(rc) == rc = 0
FirstReader_Every(rc) == rc >= 1
LastReader_One(rc) == rc = 1

(***************************************************************************)
(* Reader entry "if self.readcount == 1" and reader exit                   *)
(* "if self.readcount == 0".                                               *)
(***************************************************************************)
FirstReader(rc) == rc = 1
LastReader(rc) == rc = 0

(***************************************************************************)
(* The state __init__ leaves behind: fresh locks, a zero-filled file of    *)
(* size cells mapped as bit_array, and the metadata record saved.          *)
(***************************************************************************)
Constructed ==
    /\ size = InitSize
    /\ hash_count = InitHashCount
    /\ readcount = 0
    /\ resource = 1
    /\ rmutex = 1
    /\ serviceQueue = 1
    /\ binExists = TRUE
    /\ bit_array = ZeroArray(InitSize)
    /\ meta = save_metadata(InitSize, InitHashCount)

(***************************************************************************)
(* No thread is inside a call, and nothing has happened yet.               *)
(***************************************************************************)
NoCalls ==
    /\ pc = [t \in Threads |-> "idle"]
    /\ op = [t \in Threads |-> "none"]
    /\ elem = [t \in Threads |-> NoElem]
    /\ i = [t \in Threads |-> 0]
    /\ res = [t \in Threads |-> FALSE]
    /\ added = {}
    /\ expected = {}
    /\ wasAdded = [t \in Threads |-> FALSE]
    /\ destroyed = FALSE
    /\ afterDestroy = [t \in Threads |-> FALSE]

(***************************************************************************)
(* FCFS_Semaphore.__init__: Semaphore(1) and an empty queue.Queue().       *)
(***************************************************************************)
FCFS_Init ==
    /\ semaphore = 1
    /\ service_queue = <<>>
    /\ fpc = [t \in Threads |-> "idle"]
    /\ arrivals = <<>>
    /\ served = <<>>

(***************************************************************************)
(* The program's start: BloomFilter(1, 0.1) has returned a filter.         *)
(***************************************************************************)
Init ==
    /\ Constructed
    /\ NoCalls
    /\ num_elem = 1
    /\ target_error_rate = 10
    /\ built = "ok"
    /\ FCFS_Init

(***************************************************************************)
(* A thread outside any call: it has not called yet, its last call         *)
(* returned ("done") or its last call raised ("raised").                   *)
(***************************************************************************)
Outside(t) == pc[t] \in {"idle", "done", "raised"}

Goto(t, label) == pc' = [pc EXCEPT ![t] = label]

(***************************************************************************)
(* The call of thread t ends (by return or by an exception): its locals    *)
(* elem and i go away; res is what the caller received.                    *)
(***************************************************************************)
Leave(t, label) ==
    /\ Goto(t, label)
    /\ elem' = [elem EXCEPT ![t] = NoElem]
    /\ i' = [i EXCEPT ![t] = 0]

(***************************************************************************)
(* A caller invokes an operation; history variables record what was true   *)
(* at the time of the call.                                                *)
(***************************************************************************)
Invoke(t, o, e, label) ==
    /\ Outside(t)
    /\ Goto(t, label)
    /\ op' = [op EXCEPT ![t] = o]
    /\ elem' = [elem EXCEPT ![t] = e]
    /\ i' = [i EXCEPT ![t] = 0]
    /\ res' = [res EXCEPT ![t] = FALSE]
    /\ wasAdded' = [wasAdded EXCEPT ![t] = (o = "contains" /\ e \in added)]
    /\ afterDestroy' = [afterDestroy EXCEPT ![t] = destroyed]
    /\ UNCHANGED <<locks, store, added, expected, destroyed>>
    /\ UNCHANGED <<args, fcfs>>

CallAdd(t, e) == Invoke(t, "add", e, "w_sq")

(***************************************************************************)
(* A check_member that raises leaves readcount incremented, so readcount   *)
(* grows without limit on a deleted filter; callers stop calling once      *)
(* MaxLeaked increments have been left behind.                             *)
(***************************************************************************)
CallContains(t, e) ==
    /\ readcount < NumThreads + MaxLeaked
    /\ Invoke(t, "contains", e, "r_sq")

(***************************************************************************)
(* add_elem                                                                *)
(***************************************************************************)
\* self.serviceQueue.acquire()
W_AcquireSQ(t) ==
    /\ pc[t] = "w_sq"
    /\ CanAcquire(serviceQueue)
    /\ serviceQueue' = Acquired(serviceQueue)
    /\ Goto(t, "w_res")
    /\ UNCHANGED <<op, elem, i, res, readcount, resource, rmutex, store, history>>
    /\ UNCHANGED <<args, fcfs>>

\* faulty variant: the writer goes on without waiting for resource
W_AcquireResource_NoWait(t) ==
    /\ pc[t] = "w_res"
    /\ Goto(t, "w_sqrel")
    /\ UNCHANGED <<op, elem, i, res, locks, store, history>>
    /\ UNCHANGED <<args, fcfs>>

\* self.resource.acquire()
W_AcquireResource(t) ==
    /\ pc[t] = "w_res"
    /\ CanAcquire(resource)
    /\ resource' = Acquired(resource)
    /\ Goto(t, "w_sqrel")
    /\ UNCHANGED <<op, elem, i, res, readcount, rmutex, serviceQueue, store, history>>
    /\ UNCHANGED <<args, fcfs>>

\* self.serviceQueue.release()
W_ReleaseSQ(t) ==
    /\ pc[t] = "w_sqrel"
    /\ serviceQueue' = Released(serviceQueue)
    /\ Goto(t, "w_load")
    /\ UNCHANGED <<op, elem, i, res, readcount, resource, rmutex, store, history>>
    /\ UNCHANGED <<args, fcfs>>

\* self.load_metadata(), the .meta file being there; the loop is entered
\* unless range(self.hash_count) is empty
W_Load(t) ==
    /\ pc[t] = "w_load"
    /\ meta.present
    /\ size' = meta.size
    /\ hash_count' = meta.hash_count
    /\ i' = [i EXCEPT ![t] = 0]
    /\ Goto(t, IF meta.hash_count > 0 THEN "w_loop" ELSE "w_rel")
    /\ UNCHANGED <<op, elem, res, locks, bit_array, binExists, meta, history>>
    /\ UNCHANGED <<args, fcfs>>

\* self.load_metadata() when open() raises FileNotFoundError: the
\* exception leaves add_elem, nothing is released
W_LoadRaise(t) ==
    /\ pc[t] = "w_load"
    /\ ~meta.present
    /\ Leave(t, "raised")
    /\ UNCHANGED <<op, res, locks, store, history>>
    /\ UNCHANGED <<args, fcfs>>

\* faulty variant: the salt is off by one (range(1, hash_count + 1))
W_SetBit_SaltOffByOne(t) ==
    /\ pc[t] = "w_loop"
    /\ i[t] < hash_count
    /\ bit_array' = SetCell(bit_array, compute_hash(Str(elem[t]), i[t] + 1, size))
    /\ i' = [i EXCEPT ![t] = i[t] + 1]
    /\ Goto(t, IF i[t] + 1 < hash_count THEN "w_loop" ELSE "w_rel")
    /\ UNCHANGED <<op, elem, res, locks, size, hash_count, binExists, meta, history>>
    /\ UNCHANGED <<args, fcfs>>

\* one iteration of "for i in range(self.hash_count)"; after the last one
\* the loop is left
W_SetBit(t) ==
    /\ pc[t] = "w_loop"
    /\ i[t] < hash_count
    /\ bit_array' = SetCell(bit_array, compute_hash(Str(elem[t]), i[t], size))
    /\ i' = [i EXCEPT ![t] = i[t] + 1]
    /\ Goto(t, IF i[t] + 1 < hash_count THEN "w_loop" ELSE "w_rel")
    /\ UNCHANGED <<op, elem, res, locks, size, hash_count, binExists, meta, history>>
    /\ UNCHANGED <<args, fcfs>>

\* self.bit_array.flush(); self.resource.release(), and add_elem returns
W_ReleaseResource(t) ==
    /\ pc[t] = "w_rel"
    /\ resource' = Released(resource)
    /\ Leave(t, "done")
    /\ added' = added \cup {elem[t]}
    /\ expected' = expected \cup Positions(elem[t], hash_count, size)
    /\ UNCHANGED <<op, res, readcount, rmutex, serviceQueue, store,
                   wasAdded, destroyed, afterDestroy>>
    /\ UNCHANGED <<args, fcfs>>

(***************************************************************************)
(* check_member                                                            *)
(***************************************************************************)
\* faulty variant: the reader goes on without waiting for the gate
R_AcquireSQ_NoWait(t) ==
    /\ pc[t] = "r_sq"
    /\ serviceQueue' = Acquired(serviceQueue)
    /\ Goto(t, "r_rm")
    /\ UNCHANGED <<op, elem, i, res, readcount, resource, rmutex, store, history>>
    /\ UNCHANGED <<args, fcfs>>

\* self.serviceQueue.acquire()
R_AcquireSQ(t) ==
    /\ pc[t] = "r_sq"
    /\ CanAcquire(serviceQueue)
    /\ serviceQueue' = Acquired(serviceQueue)
    /\ Goto(t, "r_rm")
    /\ UNCHANGED <<op, elem, i, res, readcount, resource, rmutex, store, history>>
    /\ UNCHANGED <<args, fcfs>>

\* self.rmutex.acquire(); self.readcount += 1
\* (readcount is only touched by the holder of rmutex)
R_AcquireRmutex(t) ==
    /\ pc[t] = "r_rm"
    /\ CanAcquire(rmutex)
    /\ rmutex' = Acquired(rmutex)
    /\ readcount' = readcount + 1
    /\ Goto(t, "r_res")
    /\ UNCHANGED <<op, elem, i, res, resource, serviceQueue, store, history>>
    /\ UNCHANGED <<args, fcfs>>

\* if self.readcount == 1: self.resource.acquire()
R_AcquireResource(t) ==
    /\ pc[t] = "r_res"
    /\ \/ /\ FirstReader(readcount)
          /\ CanAcquire(resource)
          /\ resource' = Acquired(resource)
       \/ /\ ~FirstReader(readcount)
          /\ UNCHANGED resource
    /\ Goto(t, "r_sqrel")
    /\ UNCHANGED <<op, elem, i, res, readcount, rmutex, serviceQueue, store, history>>
    /\ UNCHANGED <<args, fcfs>>

\* self.serviceQueue.release()
R_ReleaseSQ(t) ==
    /\ pc[t] = "r_sqrel"
    /\ serviceQueue' = Released(serviceQueue)
    /\ Goto(t, "r_rmrel")
    /\ UNCHANGED <<op, elem, i, res, readcount, resource, rmutex, store, history>>
    /\ UNCHANGED <<args, fcfs>>

\* self.rmutex.release()
R_ReleaseRmutex(t) ==
    /\ pc[t] = "r_rmrel"
    /\ rmutex' = Released(rmutex)
    /\ Goto(t, "r_load")
    /\ UNCHANGED <<op, elem, i, res, readcount, resource, serviceQueue, store, history>>
    /\ UNCHANGED <<args, fcfs>>

\* self.load_metadata(); res = True; the loop is entered unless
\* range(self.hash_count) is empty
R_Load(t) ==
    /\ pc[t] = "r_load"
    /\ meta.present
    /\ size' = meta.size
    /\ hash_count' = meta.hash_count
    /\ i' = [i EXCEPT ![t] = 0]
    /\ res' = [res EXCEPT ![t] = TRUE]
    /\ Goto(t, IF meta.hash_count > 0 THEN "r_loop" ELSE "x_rm")
    /\ UNCHANGED <<op, elem, locks, bit_array, binExists, meta, history>>
    /\ UNCHANGED <<args, fcfs>>

\* self.load_metadata() when open() raises FileNotFoundError: the
\* exception leaves check_member, readcount stays incremented
R_LoadRaise(t) ==
    /\ pc[t] = "r_load"
    /\ ~meta.present
    /\ Leave(t, "raised")
    /\ UNCHANGED <<op, res, locks, store, history>>
    /\ UNCHANGED <<args, fcfs>>

\* faulty variant: no break, each iteration overwrites res
R_Probe_LastWins(t) ==
    /\ pc[t] = "r_loop"
    /\ i[t] < hash_count
    /\ res' = [res EXCEPT ![t] = (bit_array[compute_hash(Str(elem[t]), i[t], size)] = 1)]
    /\ i' = [i EXCEPT ![t] = i[t] + 1]
    /\ Goto(t, IF i[t] + 1 < hash_count THEN "r_loop" ELSE "x_rm")
    /\ UNCHANGED <<op, elem, locks, store, history>>
    /\ UNCHANGED <<args, fcfs>>

\* one iteration of the loop: a cell that is not 1 sets res = False
\* and breaks; after the last iteration the loop is left
R_Probe(t) ==
    /\ pc[t] = "r_loop"
    /\ i[t] < hash_count
    /\ IF bit_array[compute_hash(Str(elem[t]), i[t], size)] # 1
       THEN /\ res' = [res EXCEPT ![t] = FALSE]
            /\ Goto(t, "x_rm")
            /\ UNCHANGED i
       ELSE /\ i' = [i EXCEPT ![t] = i[t] + 1]
            /\ Goto(t, IF i[t] + 1 < hash_count THEN "r_loop" ELSE "x_rm")
            /\ UNCHANGED res
    /\ UNCHANGED <<op, elem, locks, store, history>>
    /\ UNCHANGED <<args, fcfs>>

\* self.rmutex.acquire(); self.readcount -= 1
X_AcquireRmutex(t) ==
    /\ pc[t] = "x_rm"
    /\ CanAcquire(rmutex)
    /\ rmutex' = Acquired(rmutex)
    /\ readcount' = readcount - 1
    /\ Goto(t, "x_res")
    /\ UNCHANGED <<op, elem, i, res, resource, serviceQueue, store, history>>
    /\ UNCHANGED <<args, fcfs>>

\* faulty variant: every leaving reader releases resource
X_ReleaseResource_Always(t) ==
    /\ pc[t] = "x_res"
    /\ resource' = Released(resource)
    /\ Goto(t, "x_rmrel")
    /\ UNCHANGED <<op, elem, i, res, readcount, rmutex, serviceQueue, store, history>>
    /\ UNCHANGED <<args, fcfs>>

\* if self.readcount == 0: self.resource.release()
X_ReleaseResource(t) ==
    /\ pc[t] = "x_res"
    /\ IF LastReader(readcount)
       THEN resource' = Released(resource)
       ELSE UNCHANGED resource
    /\ Goto(t, "x_rmrel")
    /\ UNCHANGED <<op, elem, i, res, readcount, rmutex, serviceQueue, store, history>>
    /\ UNCHANGED <<args, fcfs>>

\* faulty variant: check_member returns without releasing rmutex
X_ReleaseRmutex_Skipped(t) ==
    /\ pc[t] = "x_rmrel"
    /\ Leave(t, "done")
    /\ UNCHANGED <<op, res, locks, store, history>>
    /\ UNCHANGED <<args, fcfs>>

\* self.rmutex.release(); return res
X_ReleaseRmutex(t) ==
    /\ pc[t] = "x_rmrel"
    /\ rmutex' = Released(rmutex)
    /\ Leave(t, "done")
    /\ UNCHANGED <<op, res, readcount, resource, serviceQueue, store, history>>
    /\ UNCHANGED <<args, fcfs>>

(***************************************************************************)
(* The steps of a call in progress, and the system of threads that only    *)
(* add and check.                                                          *)
(***************************************************************************)
Progress(t) ==
    \/ W_AcquireSQ(t) \/ W_AcquireResource(t) \/ W_ReleaseSQ(t)
    \/ W_Load(t) \/ W_SetBit(t) \/ W_ReleaseResource(t)
    \/ R_AcquireSQ(t) \/ R_AcquireRmutex(t)
    \/ R_AcquireResource(t) \/ R_ReleaseSQ(t) \/ R_ReleaseRmutex(t)
    \/ R_Load(t) \/ R_Probe(t)
    \/ X_AcquireRmutex(t) \/ X_ReleaseResource(t)
    \/ X_ReleaseRmutex(t)

Next ==
    \/ \E t \in Threads, e \in Elems : CallAdd(t, e)
    \/ \E t \in Threads, e \in Elems : CallContains(t, e)
    \/ \E t \in Threads : W_AcquireSQ(t)
    \/ \E t \in Threads : W_AcquireResource(t)
    \/ \E t \in Threads : W_ReleaseSQ(t)
    \/ \E t \in Threads : W_Load(t)
    \/ \E t \in Threads : W_SetBit(t)
    \/ \E t \in Threads : W_ReleaseResource(t)
    \/ \E t \in Threads : R_AcquireSQ(t)
    \/ \E t \in Threads : R_AcquireRmutex(t)
    \/ \E t \in Threads : R_AcquireResource(t)
    \/ \E t \in Threads : R_ReleaseSQ(t)
    \/ \E t \in Threads : R_ReleaseRmutex(t)
    \/ \E t \in Threads : R_Load(t)
    \/ \E t \in Threads : R_Probe(t)
    \/ \E t \in Threads : X_AcquireRmutex(t)
    \/ \E t \in Threads : X_ReleaseResource(t)
    \/ \E t \in Threads : X_ReleaseRmutex(t)

Spec == Init /\ [][Next]_vars

(***************************************************************************)
(* delete, called by any thread: two os.remove calls, no lock taken.       *)
(***************************************************************************)
CallDelete(t) == Invoke(t, "delete", NoElem, "d_bin")

\* os.remove(self.filename); the mapping of the removed file stays usable
D_RemoveBin(t) ==
    /\ pc[t] = "d_bin"
    /\ binExists
    /\ binExists' = FALSE
    /\ Goto(t, "d_meta")
    /\ UNCHANGED <<op, elem, i, res, locks, size, hash_count, bit_array, meta, history>>
    /\ UNCHANGED <<args, fcfs>>

\* os.remove(self.filename) raises FileNotFoundError: the file is gone
D_RemoveBinRaise(t) ==
    /\ pc[t] = "d_bin"
    /\ ~binExists
    /\ Leave(t, "raised")
    /\ UNCHANGED <<op, res, locks, store, history>>
    /\ UNCHANGED <<args, fcfs>>

\* os.remove(self.filename + '.meta'), and delete returns
D_RemoveMeta(t) ==
    /\ pc[t] = "d_meta"
    /\ IF meta.present
       THEN /\ meta' = NoMeta
            /\ destroyed' = TRUE
            /\ Leave(t, "done")
       ELSE /\ Leave(t, "raised")
            /\ UNCHANGED <<meta, destroyed>>
    /\ UNCHANGED <<op, res, locks, size, hash_count, bit_array, binExists,
                   added, expected, wasAdded, afterDestroy>>
    /\ UNCHANGED <<args, fcfs>>

(***************************************************************************)
(* __init__ run again on the same filename by a process in which no call   *)
(* is in progress (the only way the program opens a store): the file is    *)
(* removed if it exists and rewritten with zeros, fresh locks are made,    *)
(* the metadata record is saved.                                           *)
(***************************************************************************)
NewFilter ==
    /\ \A t \in Threads : Outside(t)
    /\ size' = InitSize
    /\ hash_count' = InitHashCount
    /\ readcount' = 0
    /\ resource' = 1
    /\ rmutex' = 1
    /\ serviceQueue' = 1
    /\ binExists' = TRUE
    /\ bit_array' = ZeroArray(InitSize)
    /\ meta' = save_metadata(InitSize, InitHashCount)
    /\ pc' = [t \in Threads |-> "idle"]
    /\ op' = [t \in Threads |-> "none"]
    /\ elem' = [t \in Threads |-> NoElem]
    /\ i' = [t \in Threads |-> 0]
    /\ res' = [t \in Threads |-> FALSE]
    /\ added' = {}
    /\ expected' = {}
    /\ wasAdded' = [t \in Threads |-> FALSE]
    /\ destroyed' = FALSE
    /\ afterDestroy' = [t \in Threads |-> FALSE]
    /\ UNCHANGED <<args, fcfs>>

(***************************************************************************)
(* The system with the whole life cycle: calls, delete, construction.      *)
(***************************************************************************)
NextLife ==
    \/ Next
    \/ \E t \in Threads : W_LoadRaise(t)
    \/ \E t \in Threads : R_LoadRaise(t)
    \/ \E t \in Threads : CallDelete(t)
    \/ \E t \in Threads : D_RemoveBin(t)
    \/ \E t \in Threads : D_RemoveBinRaise(t)
    \/ \E t \in Threads : D_RemoveMeta(t)
    \/ NewFilter

SpecLife == Init /\ [][NextLife]_vars

(***************************************************************************)
(* Fair scheduling: a thread inside a call whose next statement can run    *)
(* eventually runs it.  threading.Semaphore wakes no particular waiter     *)
(* first, so nothing stronger holds of a blocked acquire().  Callers are   *)
(* free to call again or not.  Admission does not depend on the element,   *)
(* so the callers of this system all pass the same one.                    *)
(***************************************************************************)
FairElems == {IntElem(1)}

NextFair ==
    \/ \E t \in Threads, e \in FairElems : CallAdd(t, e)
    \/ \E t \in Threads, e \in FairElems : CallContains(t, e)
    \/ \E t \in Threads : Progress(t)

SpecFair == Init /\ [][NextFair]_vars /\ \A t \in Threads : WF_vars(Progress(t))

(***************************************************************************)
(* Calls and construction only (no delete).                                *)
(***************************************************************************)
NextReopen ==
    \/ Next
    \/ NewFilter

SpecReopen == Init /\ [][NextReopen]_vars

(***************************************************************************)
(* The steps a thread inside a call can take in the whole life cycle.      *)
(***************************************************************************)
ProgressLife(t) ==
    \/ Progress(t)
    \/ W_LoadRaise(t) \/ R_LoadRaise(t)
    \/ D_RemoveBin(t) \/ D_RemoveBinRaise(t) \/ D_RemoveMeta(t)

(***************************************************************************)
(* Where a thread is.  The write body lies between writer entry (lines     *)
(* 61-63) and writer exit (line 73); the read body between reader entry    *)
(* (lines 79-85) and reader exit (lines 97-101).                           *)
(***************************************************************************)
InWriteBody(t) == pc[t] \in {"w_load", "w_loop", "w_rel"}
InReadBody(t) == pc[t] \in {"r_load", "r_loop", "x_rm"}

(***************************************************************************)
(* What check_member computes on a given array: every cell of the          *)
(* element's hash_count positions is 1.                                    *)
(***************************************************************************)
CheckMember(arr, e, hc, sz) ==
    \A k \in 0..(hc - 1) : arr[compute_hash(Str(e), k, sz)] = 1

(***************************************************************************)
(* C1.  Mutual exclusion: at most one thread is inside the write body, and *)
(* while a thread is inside the write body no thread is inside the read    *)
(* body.                                                                   *)
(***************************************************************************)
C1_MutualExclusion ==
    /\ Cardinality({t \in Threads : InWriteBody(t)}) <= 1
    /\ (\E t \in Threads : InWriteBody(t)) => ~(\E u \in Threads : InReadBody(u))

\* a writer is in its body while a first reader waits for resource
C1_Witness ==
    \E t, u \in Threads :
        /\ pc[t] = "w_loop"
        /\ pc[u] = "r_res"
        /\ readcount = 1

(***************************************************************************)
(* C2.  No false negatives: a check_member(e) that was called after an     *)
(* add_elem(e) had returned (on a filter that is never deleted) returns    *)
(* True.                                                                   *)
(***************************************************************************)
C2_NoFalseNegative ==
    \A t \in Threads :
        (pc[t] = "done" /\ op[t] = "contains" /\ wasAdded[t]) => res[t] = TRUE

\* such a check has returned True while another thread is writing
C2_Witness ==
    \E t, u \in Threads :
        /\ pc[t] = "done" /\ op[t] = "contains" /\ wasAdded[t] /\ res[t]
        /\ pc[u] = "w_loop"

(***************************************************************************)
(* C3 as stated.  Writer non-starvation: under fair scheduling every       *)
(* add_elem that waits for serviceQueue or for resource eventually is in   *)
(* its write body.                                                         *)
(***************************************************************************)
C3_WriterNeverStarves ==
    \A t \in Threads : (pc[t] \in {"w_sq", "w_res"}) ~> InWriteBody(t)

(***************************************************************************)
(* C3 amended.  Under fair scheduling every add_elem that has acquired     *)
(* serviceQueue and waits for resource eventually is in its write body,    *)
(* however many check_member calls keep arriving.                          *)
(***************************************************************************)
C3_GateHolderEnters ==
    \A t \in Threads : (pc[t] = "w_res") ~> InWriteBody(t)

\* a writer holds the gate and waits for resource behind a reader
C3_Witness ==
    \E t, u \in Threads :
        /\ pc[t] = "w_res"
        /\ InReadBody(u)
        /\ resource = 0

(***************************************************************************)
(* C4 as stated.  After delete has returned, an add_elem or check_member   *)
(* called afterwards never returns normally and never blocks forever:      *)
(* while such a call is pending, some thread inside a call can take a      *)
(* step (when none can, the held semaphores are never released).           *)
(***************************************************************************)
C4_DestroyedCallsFail ==
    \A t \in Threads :
        (afterDestroy[t] /\ op[t] \in {"add", "contains"}) =>
            /\ pc[t] # "done"
            /\ ~Outside(t) => \E u \in Threads : ENABLED ProgressLife(u)

(***************************************************************************)
(* C5.  Concurrent adds lose no bit: whenever no add_elem is in its loop   *)
(* or about to release, the cells that hold 1 are exactly the union of the *)
(* positions that each returned add_elem sets when run alone.              *)
(***************************************************************************)
C5_AddsAreUnion ==
    (\A t \in Threads : pc[t] \notin {"w_loop", "w_rel"}) =>
        \A c \in 0..(size - 1) : bit_array[c] = 1 <=> c \in expected

\* two threads have both returned from adds of elements whose positions
\* differ
C5_Witness ==
    \E t, u \in Threads :
        /\ t # u
        /\ pc[t] = "done" /\ op[t] = "add"
        /\ pc[u] = "done" /\ op[u] = "add"
        /\ \E e, f \in added :
               Positions(e, hash_count, size) # Positions(f, hash_count, size)

(***************************************************************************)
(* C6.  Reader/writer isolation: no step changes the bit array while a     *)
(* check_member is between the end of reader entry and the start of        *)
(* reader exit.                                                            *)
(***************************************************************************)
C6_ReadIsolation ==
    [][(\E t \in Threads : InReadBody(t)) => bit_array' = bit_array]_vars

\* a reader is in the middle of its loop while a writer waits
C6_Witness ==
    \E t, u \in Threads :
        /\ pc[t] = "r_loop" /\ i[t] = 1
        /\ pc[u] = "w_res"

(***************************************************************************)
(* C7.  Readers share access: while one check_member is inside its read    *)
(* body, a second one that has reached "if self.readcount == 1" passes it  *)
(* without blocking on resource.                                           *)
(***************************************************************************)
C7_ReadersShare ==
    \A t, u \in Threads :
        (t # u /\ InReadBody(u) /\ pc[t] = "r_res") =>
            ENABLED R_AcquireResource(t)

\* two threads are inside the read body at once
C7_Witness ==
    \E t, u \in Threads : t # u /\ pc[t] = "r_loop" /\ pc[u] = "r_loop"

(***************************************************************************)
(* C8.  Bit monotonicity: no step other than construction takes a cell     *)
(* from 1 to 0.                                                            *)
(***************************************************************************)
C8_BitsMonotone ==
    [][NewFilter \/ \A c \in DOMAIN bit_array :
                        bit_array[c] = 1 => bit_array'[c] = 1]_vars

\* a writer rewrites a cell that already holds 1
C8_Witness ==
    \E t \in Threads :
        /\ pc[t] = "w_loop"
        /\ i[t] < hash_count
        /\ bit_array[compute_hash(Str(elem[t]), i[t], size)] = 1

(***************************************************************************)
(* C9 as stated.  Persistence round trip: when the store is opened again   *)
(* with its bit-array file and metadata record in place, check_member is   *)
(* True for every element whose add_elem had returned.                     *)
(***************************************************************************)
C9_RoundTrip ==
    [][(NewFilter /\ binExists /\ meta.present) =>
           \A e \in added : CheckMember(bit_array', e, hash_count', size')]_vars

(***************************************************************************)
(* C10 as stated.  Serialization is injective: an element being hashed     *)
(* and a different element already added never feed the same string to     *)
(* the digest.                                                             *)
(***************************************************************************)
C10_DistinctSerialization ==
    \A t \in Threads :
        pc[t] \in {"w_loop", "r_loop"} =>
            \A e \in added :
                e # elem[t] =>
                    \A k \in 0..(hash_count - 1) :
                        HashInput(Str(e), k) # HashInput(Str(elem[t]), k)

(***************************************************************************)
(* Construction with arbitrary arguments.                                  *)
(*                                                                         *)
(* The arithmetic of __init__ in fixed point: a rate is a number of        *)
(* hundredths, a logarithm a number of millionths.  LnMicro tabulates      *)
(* math.log for the rates the callers pass; math.log raises ValueError     *)
(* for a rate that is not positive.                                        *)
(***************************************************************************)
MaxNumElem == 3

NumElems == (0 - MaxNumElem)..MaxNumElem
ErrorRates == {0 - 50, 0, 1, 10, 47, 48, 50, 100, 150}

LnMicro(p) ==
    CASE p = 1 -> 0 - 4605170
      [] p = 10 -> 0 - 2302585
      [] p = 47 -> 0 - 755023
      [] p = 48 -> 0 - 733969
      [] p = 50 -> 0 - 693147
      [] p = 100 -> 0
      [] p = 150 -> 405465

\* math.log(2) and math.log(2) ** 2, in millionths
Ln2Micro == 693147
Ln2SqMicro == 480453

\* int(a / b): the quotient truncated toward zero
TruncDiv(a, b) ==
    IF (a >= 0) = (b > 0)
    THEN (IF a >= 0 THEN a ELSE 0 - a) \div (IF b > 0 THEN b ELSE 0 - b)
    ELSE 0 - ((IF a >= 0 THEN a ELSE 0 - a) \div (IF b > 0 THEN b ELSE 0 - b))

\* faulty variant: the assertion lets the rate 0.48 through
RateAccepted_Inclusive(p) == p <= 48

\* assert target_error_rate < 0.48
RateAccepted(p) == p < 48

\* self.size = int(-num_elem * math.log(target_error_rate) / (math.log(2) ** 2))
DerivedSize(n, p) == TruncDiv((0 - n) * LnMicro(p), Ln2SqMicro)

\* self.hash_count = int(self.size / num_elem * math.log(2))
DerivedHashCount(sz, n) == TruncDiv(sz * Ln2Micro, n * 1000000)

(***************************************************************************)
(* How BloomFilter(n, p) ends: the first statement that raises, or "ok".   *)
(* mmap.mmap raises OverflowError for a negative length and ValueError for *)
(* length 0 (the file just written is empty).                              *)
(***************************************************************************)
Outcome(n, p) ==
    IF ~RateAccepted(p) THEN "AssertionError"
    ELSE IF p <= 0 THEN "ValueError"
    ELSE IF n = 0 THEN "ZeroDivisionError"
    ELSE IF DerivedSize(n, p) < 0 THEN "OverflowError"
    ELSE IF DerivedSize(n, p) = 0 THEN "ValueError"
    ELSE "ok"

(***************************************************************************)
(* Before the constructor runs: the path may hold nothing, or the files of *)
(* an earlier filter (with or without cells set).                          *)
(***************************************************************************)
InitNew ==
    /\ num_elem \in NumElems
    /\ target_error_rate \in ErrorRates
    /\ built = "none"
    /\ size = 0
    /\ hash_count = 0
    /\ readcount = 0
    /\ resource = 0
    /\ rmutex = 0
    /\ serviceQueue = 0
    /\ \/ /\ binExists = FALSE
          /\ bit_array = ZeroArray(0)
          /\ meta = NoMeta
       \/ /\ binExists = TRUE
          /\ bit_array \in {ZeroArray(InitSize), [c \in 0..(InitSize - 1) |-> 1]}
          /\ meta = save_metadata(InitSize, InitHashCount)
    /\ NoCalls
    /\ FCFS_Init

(***************************************************************************)
(* __init__(num_elem, target_error_rate): everything up to the statement   *)
(* that raises takes effect.  An OverflowError or ValueError of mmap.mmap  *)
(* comes after the file was removed and rewritten (with no cell at all).   *)
(***************************************************************************)
Construct ==
    /\ built = "none"
    /\ built' = Outcome(num_elem, target_error_rate)
    /\ IF Outcome(num_elem, target_error_rate) = "ok"
       THEN /\ size' = DerivedSize(num_elem, target_error_rate)
            /\ hash_count' = DerivedHashCount(size', num_elem)
            /\ readcount' = 0
            /\ resource' = 1
            /\ rmutex' = 1
            /\ serviceQueue' = 1
            /\ binExists' = TRUE
            /\ bit_array' = ZeroArray(size')
            /\ meta' = save_metadata(size', hash_count')
       ELSE IF Outcome(num_elem, target_error_rate) \in {"AssertionError", "ZeroDivisionError"}
                \/ target_error_rate <= 0
       THEN UNCHANGED <<locks, store>>
       ELSE /\ binExists' = TRUE
            /\ bit_array' = ZeroArray(0)
            /\ UNCHANGED <<locks, size, hash_count, meta>>
    /\ UNCHANGED <<locals, history, num_elem, target_error_rate, fcfs>>

NextNew == Construct

SpecNew == InitNew /\ [][NextNew]_vars

(***************************************************************************)
(* The membership test as check_member computes it on a given array: the   *)
(* conjunction over range(hash_count) of "the cell is 1" (defined above as *)
(* CheckMember).                                                           *)
(*                                                                         *)
(* C11. Construction resets the store: once BloomFilter(n, p) has returned *)
(* a filter, whatever was stored at the path before, the bit array has     *)
(* exactly size cells, all 0, the metadata record is {size, hash_count} of *)
(* the new filter, and check_member answers False for every element (no    *)
(* add has happened yet).                                                  *)
(***************************************************************************)
C11_ConstructionResets ==
    built = "ok" /\ added = {} /\ (\A t \in Threads : pc[t] = "idle") =>
        /\ DOMAIN bit_array = 0..(size - 1)
        /\ \A c \in DOMAIN bit_array : bit_array[c] = 0
        /\ meta = save_metadata(size, hash_count)
        /\ \A e \in Elems : ~CheckMember(bit_array, e, hash_count, size)

(***************************************************************************)
(* C12. Construction validation: BloomFilter(n, p) raises, and returns no  *)
(* filter, for every input with p >= 0.48, p <= 0 or n <= 0; it returns a  *)
(* filter only for n > 0 and 0 < p < 0.48.                                 *)
(***************************************************************************)
C12_ConstructionValidation ==
    built # "none" =>
        (built = "ok" <=> (num_elem > 0 /\ 0 < target_error_rate /\ target_error_rate < 48))

C12_Witness ==
    /\ built \notin {"none", "ok"}
    /\ num_elem < 0
    /\ 0 < target_error_rate
    /\ target_error_rate < 48

(***************************************************************************)
(* C13. Idempotence of add: an add_elem(e) that runs after an add_elem(e)  *)
(* has returned changes no cell, whatever else the array holds; the state  *)
(* after two adds of e equals the state after one.                         *)
(***************************************************************************)
C13_AddIdempotent ==
    [][(\E t \in Threads : pc[t] = "w_loop" /\ elem[t] \in added)
          => bit_array' = bit_array]_vars

C13_Witness ==
    \E t \in Threads : pc[t] = "w_loop" /\ elem[t] \in added /\ i[t] = 1

(***************************************************************************)
(* FCFS_Semaphore, used the way serviceQueue is used: a thread calls       *)
(* acquire() and later release().  The threads take MaxTickets tickets in  *)
(* all.                                                                    *)
(***************************************************************************)
MaxTickets == 4

\* self.service_queue.put(thread_id)
F_Put(t) ==
    /\ fpc[t] = "idle"
    /\ Len(arrivals) < MaxTickets
    /\ service_queue' = Append(service_queue, t)
    /\ arrivals' = Append(arrivals, t)
    /\ fpc' = [fpc EXCEPT ![t] = "f_wait"]
    /\ UNCHANGED <<semaphore, served>>
    /\ UNCHANGED <<locals, locks, store, history, args>>

\* faulty variant: the thread does not wait to be at the head of the queue
F_Head_Any(t) ==
    /\ fpc[t] = "f_wait"
    /\ fpc' = [fpc EXCEPT ![t] = "f_sem"]
    /\ UNCHANGED <<service_queue, semaphore, arrivals, served>>
    /\ UNCHANGED <<locals, locks, store, history, args>>

\* while self.service_queue.queue[0] != thread_id: wait -- the loop ends
F_Head(t) ==
    /\ fpc[t] = "f_wait"
    /\ service_queue # <<>>
    /\ Head(service_queue) = t
    /\ fpc' = [fpc EXCEPT ![t] = "f_sem"]
    /\ UNCHANGED <<service_queue, semaphore, arrivals, served>>
    /\ UNCHANGED <<locals, locks, store, history, args>>

\* self.semaphore.acquire(), and acquire() returns
F_SemAcquire(t) ==
    /\ fpc[t] = "f_sem"
    /\ CanAcquire(semaphore)
    /\ semaphore' = Acquired(semaphore)
    /\ served' = Append(served, t)
    /\ fpc' = [fpc EXCEPT ![t] = "f_held"]
    /\ UNCHANGED <<service_queue, arrivals>>
    /\ UNCHANGED <<locals, locks, store, history, args>>

\* release(): self.semaphore.release()
F_SemRelease(t) ==
    /\ fpc[t] = "f_held"
    /\ semaphore' = Released(semaphore)
    /\ fpc' = [fpc EXCEPT ![t] = "f_get"]
    /\ UNCHANGED <<service_queue, arrivals, served>>
    /\ UNCHANGED <<locals, locks, store, history, args>>

\* release(): self.service_queue.get() removes the head, and release() returns
F_Get(t) ==
    /\ fpc[t] = "f_get"
    /\ service_queue # <<>>
    /\ service_queue' = Tail(service_queue)
    /\ fpc' = [fpc EXCEPT ![t] = "idle"]
    /\ UNCHANGED <<semaphore, arrivals, served>>
    /\ UNCHANGED <<locals, locks, store, history, args>>

NextFCFS ==
    \/ \E t \in Threads : F_Put(t)
    \/ \E t \in Threads : F_Head(t)
    \/ \E t \in Threads : F_SemAcquire(t)
    \/ \E t \in Threads : F_SemRelease(t)
    \/ \E t \in Threads : F_Get(t)

SpecFCFS == Init /\ [][NextFCFS]_vars

(***************************************************************************)
(* C14. Strict FCFS of FCFS_Semaphore: the threads return from acquire()   *)
(* in exactly the order in which they put their ticket into service_queue  *)
(* (the sequence of returns is a prefix of the sequence of puts), and at   *)
(* most one thread holds the semaphore at a time.                          *)
(***************************************************************************)
C14_StrictFCFS ==
    /\ Len(served) <= Len(arrivals)
    /\ \A k \in 1..Len(served) : served[k] = arrivals[k]
    /\ Cardinality({t \in Threads : fpc[t] = "f_held"}) <= 1

C14_Witness ==
    /\ Len(served) >= 2
    /\ served[1] # served[2]
    /\ \E t \in Threads : fpc[t] = "f_held"
    /\ \E u \in Threads : fpc[u] = "f_wait"

(***************************************************************************)
(* C15. Writer delay bounded by one reader batch, as stated: from the      *)
(* moment an add_elem holds serviceQueue until it acquires resource,       *)
(* readcount does not increase and no check_member enters its read body.   *)
(***************************************************************************)
C15_NoReaderEntersBehindWriter ==
    [][\A t \in Threads : (pc[t] = "w_res" /\ pc'[t] = "w_res") =>
          /\ readcount' <= readcount
          /\ \A u \in Threads :
                 pc'[u] \in {"r_load", "r_loop", "x_rm"}
                     => pc[u] \in {"r_load", "r_loop", "x_rm"}]_vars

(***************************************************************************)
(* C15, amended.  While an add_elem holds serviceQueue and has not yet     *)
(* acquired resource, readcount does not increase, and the only            *)
(* check_member that enters its read body is one that was counted in       *)
(* readcount before the writer took the gate: it had released serviceQueue *)
(* (line 84) and still had to release rmutex (line 85).                    *)
(***************************************************************************)
C15_NoNewReaderCounted ==
    [][\A t \in Threads : (pc[t] = "w_res" /\ pc'[t] = "w_res") =>
          /\ readcount' <= readcount
          /\ \A u \in Threads :
                 (pc'[u] \in {"r_load", "r_loop", "x_rm"}
                    /\ pc[u] \notin {"r_load", "r_loop", "x_rm"})
                     => (pc[u] = "r_rmrel" /\ readcount >= 1)]_vars

C15_Witness ==
    \E t, u \in Threads : pc[t] = "w_res" /\ pc[u] = "r_rmrel" /\ readcount = 1

(***************************************************************************)
(* C16. All mutation passes through the admission protocol: a step that    *)
(* changes the shared store (a cell set by add_elem, the removal of the    *)
(* bit-array file or of the metadata record by delete) is never taken      *)
(* while another thread is inside a read body or a write body.             *)
(* Construction is not a call on the filter and is left aside.             *)
(***************************************************************************)
C16_MutationUnderResource ==
    [][NewFilter
        \/ ((bit_array' # bit_array \/ binExists' # binExists \/ meta' # meta)
              => \A u \in Threads :
                     (pc'[u] = pc[u] /\ i'[u] = i[u])
                         => (~InReadBody(u) /\ ~InWriteBody(u)))]_vars

(***************************************************************************)
(* C17. Failures are caller-retryable: when an add_elem or check_member    *)
(* has raised and no other call is in progress, serviceQueue, rmutex and   *)
(* resource are released and readcount is back at 0, so that a later call  *)
(* can be admitted.                                                        *)
(***************************************************************************)
C17_FailureReleasesLocks ==
    \A t \in Threads :
        (/\ pc[t] = "raised"
         /\ op[t] \in {"add", "contains"}
         /\ \A u \in Threads : Outside(u))
            => /\ serviceQueue = 1
               /\ rmutex = 1
               /\ resource = 1
               /\ readcount = 0

(***************************************************************************)
(* C18. check_member computes the conjunction of the element's cells: when *)
(* the loop of a check_member(e) is over (and the call is still in its     *)
(* read body), res is True iff the cell at compute_hash(str(e), k) is 1    *)
(* for every k in range(hash_count); the break at the first unset cell     *)
(* does not change the answer.                                             *)
(***************************************************************************)
C18_ContainsIsConjunction ==
    \A t \in Threads :
        pc[t] = "x_rm" => (res[t] <=> CheckMember(bit_array, elem[t], hash_count, size))

C18_Witness ==
    \E t \in Threads : pc[t] = "x_rm" /\ ~res[t] /\ i[t] = 1 /\ added # {}

(***************************************************************************)
(* A writer holds resource from line 62 to line 73.                        *)
(***************************************************************************)
WriterHolds(t) == pc[t] \in {"w_sqrel", "w_load", "w_loop", "w_rel"}

(***************************************************************************)
(* C20. Lock-state invariant: readcount >= 0; serviceQueue, rmutex and     *)
(* resource are 0 or 1; and whenever rmutex is free, readcount is the      *)
(* number of check_member calls that have completed reader entry and not   *)
(* yet decremented readcount, and resource is held on behalf of the        *)
(* readers (held, and by no writer) exactly when that number is positive.  *)
(***************************************************************************)
C20_LockState ==
    /\ readcount >= 0
    /\ serviceQueue \in {0, 1}
    /\ rmutex \in {0, 1}
    /\ resource \in {0, 1}
    /\ rmutex = 1 =>
        /\ readcount = Cardinality({t \in Threads : InReadBody(t)})
        /\ (resource = 0 /\ \A t \in Threads : ~WriterHolds(t))
               <=> (\E t \in Threads : InReadBody(t))

C20_Witness ==
    /\ rmutex = 1
    /\ readcount = 2
    /\ resource = 0
    /\ \E t \in Threads : pc[t] = "x_rm"

(***************************************************************************)
(* A finite set of calls: every thread makes one call, add_elem or         *)
(* check_member, and the scheduler lets every thread run that can run.     *)
(***************************************************************************)
CallAddOnce(t, e) ==
    /\ pc[t] = "idle"
    /\ CallAdd(t, e)

CallContainsOnce(t, e) ==
    /\ pc[t] = "idle"
    /\ CallContains(t, e)

NextOnce ==
    \/ \E t \in Threads, e \in Elems : CallAddOnce(t, e)
    \/ \E t \in Threads, e \in Elems : CallContainsOnce(t, e)
    \/ \E t \in Threads : Progress(t)

SpecOnce == Init /\ [][NextOnce]_vars /\ \A t \in Threads : WF_vars(Progress(t))

(***************************************************************************)
(* C19. Deadlock freedom and quiescence: with finitely many add_elem and   *)
(* check_member calls and fair scheduling, every call eventually returns;  *)
(* in no reachable state is a call pending while no thread can take a      *)
(* step; and once all calls have returned readcount is 0 and serviceQueue, *)
(* rmutex and resource are free.                                           *)
(***************************************************************************)
C19_DeadlockFreeQuiescent ==
    /\ []((\E t \in Threads : ~Outside(t)) => \E u \in Threads : ENABLED Progress(u))
    /\ []((\A t \in Threads : Outside(t))
            => (readcount = 0 /\ serviceQueue = 1 /\ rmutex = 1 /\ resource = 1))
    /\ \A t \in Threads : (~Outside(t)) ~> (pc[t] = "done")

C19_Witness ==
    /\ \A t \in Threads : pc[t] = "done"
    /\ \E t, u \in Threads : op[t] = "add" /\ op[u] = "contains"
    /\ readcount = 0

====
